---- MODULE Spec2Model ----
(***************************************************************************)
(* Model of download_facenet.py: a sequential script that creates          *)
(* assets/models, fetches one file with urllib.request.urlretrieve and a   *)
(* progress callback, and reports success or failure on the console.       *)
(*                                                                         *)
(* The filesystem, the remote server and the console are the environment.  *)
(* urlretrieve and os.makedirs are modelled by what CPython's standard     *)
(* library does for the arguments the script passes: urlopen, open the     *)
(* destination 'wb', reporthook(0, bs, size), then for each block read     *)
(* write it and call reporthook(blocknum, bs, size), and raise             *)
(* ContentTooShortError when fewer bytes than Content-Length arrived.      *)
(* Byte counts are scaled down: BlockSize stands for the library's 8192.   *)
(* print is taken to succeed always.                                       *)
(***************************************************************************)
EXTENDS Integers, Sequences, FiniteSets, TLC

\* ---------------------------------------------------------------- bounds
MaxLen    == 3      \* longest remote body, in bytes
MaxOld    == 4      \* longest file already at the destination, in bytes
BlockSize == 2      \* urlretrieve's read size bs (8192 in the library), scaled
MaxRuns   == 2      \* invocations of the script in a row
MaxArg    == 3      \* largest callback argument in SpecProgress

\* ------------------------------------------------------------- constants
MB == 1048576                                  \* 1024 * 1024
models_dir == "assets/models"
model_url  == "https://github.com/kby-ai/FaceRecognition-Flutter/raw/main/assets/facenet.tflite"
model_path == "assets/models/facenet.tflite"   \* os.path.join(models_dir, "facenet.tflite")
manual_url == "https://github.com/kby-ai/FaceRecognition-Flutter/tree/main/assets"

NoFile == << -1 >>          \* no file at model_path (no content is this sequence)
Byte   == {1, 2}           \* bytes of the remote body

VARIABLES
  pc,         \* position of the script
  dirState,   \* assets/models: "absent", "dir", or "blocked" (a non-directory is in the way)
  writable,   \* the process may create entries under the working tree
  file,       \* content of model_path, or NoFile
  remote,     \* body the server holds at model_url
  env,        \* this invocation's environment: reachable, hasLength, deliver, statOk
  size,       \* urlretrieve: size (-1 = no Content-Length)
  read,       \* urlretrieve: read
  blocknum,   \* urlretrieve: blocknum
  received,   \* bytes read from the response in this invocation
  out,        \* console output of this invocation
  attempts,   \* calls of urlretrieve in this invocation
  raised,     \* where an exception was raised in this invocation
  excType,    \* its class
  excText,    \* str(e)
  runs,       \* invocations started
  pre,        \* dirState and file when this invocation started
  prev,       \* outcome of the previous invocation
  args,       \* arguments of the last download_progress call
  result      \* what that call produced

vars == <<pc, dirState, writable, file, remote, env, size, read, blocknum,
          received, out, attempts, raised, excType, excText, runs, pre, prev,
          args, result>>

\* ------------------------------------------------------------ arithmetic
\* n / d rounded to the nearest integer, ties to even: what the :.1f
\* format does to a value expressed in tenths.  d # 0.
RoundDiv(n, d) ==
  LET nn == IF d < 0 THEN -n ELSE n
      dd == IF d < 0 THEN -d ELSE d
      q  == nn \div dd
      r  == nn - q * dd
  IN  IF 2 * r < dd THEN q
      ELSE IF 2 * r > dd THEN q + 1
      ELSE IF q % 2 = 0 THEN q ELSE q + 1

\* Python's true division n * k / d, in tenths as :.1f prints it;
\* ZeroDivisionError for d = 0.
Quot(n, k, d) ==
  IF d = 0 THEN [err |-> TRUE, val |-> 0]
           ELSE [err |-> FALSE, val |-> RoundDiv(n * k * 10, d)]

\* ---------------------------------------------------------- console lines
Line(kind, text) ==
  [kind |-> kind, text |-> text, percent |-> 0, mb_downloaded |-> 0, mb_total |-> 0]
ProgressLine(p, d, t) ==
  [kind |-> "progress", text |-> "", percent |-> p, mb_downloaded |-> d, mb_total |-> t]

NoResult == [raised |-> FALSE, line |-> Line("none", "")]
NoArgs   == [block_num |-> 0, block_size |-> 0, total_size |-> 0]

\* The callback with the guard written total_size >= 0.
download_progress_ge(block_num, block_size, total_size) ==
  LET downloaded == block_num * block_size
      percent == IF total_size >= 0 THEN Quot(downloaded, 100, total_size)
                                    ELSE [err |-> FALSE, val |-> 0]
      mb_downloaded == Quot(downloaded, 1, MB)
      mb_total == Quot(total_size, 1, MB)
  IN  IF percent.err
        THEN [raised |-> TRUE, line |-> Line("none", "")]
        ELSE [raised |-> FALSE,
              line |-> ProgressLine(percent.val, mb_downloaded.val, mb_total.val)]

\* download_progress(block_num, block_size, total_size): the line it prints,
\* numbers in tenths, or the exception it raises.
download_progress(block_num, block_size, total_size) ==
  LET downloaded == block_num * block_size
      percent == IF total_size > 0 THEN Quot(downloaded, 100, total_size)
                                   ELSE [err |-> FALSE, val |-> 0]
      mb_downloaded == Quot(downloaded, 1, MB)
      mb_total == Quot(total_size, 1, MB)
  IN  IF percent.err
        THEN [raised |-> TRUE, line |-> Line("none", "")]
        ELSE [raised |-> FALSE,
              line |-> ProgressLine(percent.val, mb_downloaded.val, mb_total.val)]

\* ------------------------------------------------------------ environment
SeqsUpTo(S, n) == UNION {[1..k -> S] : k \in 0..n}
Remotes     == SeqsUpTo(Byte, MaxLen)
OldContents == SeqsUpTo({0}, MaxOld)
Envs(r) == [reachable : BOOLEAN, hasLength : BOOLEAN,
            deliver : 0..Len(r), statOk : BOOLEAN]
NoPrev == [outcome |-> "none", file |-> NoFile, received |-> <<>>]

Min(a, b) == IF a < b THEN a ELSE b

\* --------------------------------------------------------------- makedirs
\* os.makedirs(models_dir) without exist_ok: an existing directory is an error.
makedirs_strict(d, w) ==
  IF d = "absent" /\ w THEN [ok |-> TRUE, dir |-> "dir", exc |-> "", text |-> ""]
  ELSE IF d = "absent"
    THEN [ok |-> FALSE, dir |-> d, exc |-> "PermissionError",
          text |-> "[Errno 13] Permission denied: 'assets'"]
    ELSE [ok |-> FALSE, dir |-> d, exc |-> "FileExistsError",
          text |-> "[Errno 17] File exists: 'assets/models'"]

\* A directory step that reports success without creating anything.
makedirs_skip(d, w) == [ok |-> TRUE, dir |-> d, exc |-> "", text |-> ""]

\* os.makedirs(models_dir, exist_ok=True)
makedirs(d, w) ==
  IF d = "dir" THEN [ok |-> TRUE, dir |-> "dir", exc |-> "", text |-> ""]
  ELSE IF d = "absent" /\ w THEN [ok |-> TRUE, dir |-> "dir", exc |-> "", text |-> ""]
  ELSE IF d = "absent"
    THEN [ok |-> FALSE, dir |-> d, exc |-> "PermissionError",
          text |-> "[Errno 13] Permission denied: 'assets'"]
    ELSE [ok |-> FALSE, dir |-> d, exc |-> "FileExistsError",
          text |-> "[Errno 17] File exists: 'assets/models'"]

\* ------------------------------------------------------------- try/except
Exceptions == {"URLError", "ContentTooShortError", "PermissionError",
               "FileNotFoundError", "FileExistsError", "ZeroDivisionError"}

\* A handler written for network errors only.
Catches_urlerror(e) == e \in {"URLError", "ContentTooShortError"}

\* except Exception as e
Catches(e) == e \in Exceptions

\* An exception of class e raised at place w inside the try block.
Raise(w, e, text) ==
  /\ raised' = w
  /\ excType' = e
  /\ excText' = text
  /\ pc' = IF Catches(e) THEN "except" ELSE "crashed"

NoRaise == UNCHANGED <<raised, excType, excText>>

\* ------------------------------------------------------------------- Init
InitRun ==
  /\ size = -1 /\ read = 0 /\ blocknum = 0 /\ received = <<>>
  /\ out = <<>> /\ attempts = 0
  /\ raised = "none" /\ excType = "" /\ excText = ""
  /\ args = NoArgs /\ result = NoResult

Init ==
  /\ pc = "makedirs"
  /\ dirState \in {"absent", "dir", "blocked"}
  /\ writable \in BOOLEAN
  /\ file \in IF dirState = "dir" THEN OldContents \cup {NoFile} ELSE {NoFile}
  /\ remote \in Remotes
  /\ env \in Envs(remote)
  /\ InitRun
  /\ runs = 1
  /\ pre = [dir |-> dirState, file |-> file]
  /\ prev = NoPrev

\* ---------------------------------------------------------------- actions
\* line 6, outside the try block: an exception ends the script with a traceback.
Makedirs ==
  /\ pc = "makedirs"
  /\ LET r == makedirs(dirState, writable) IN
       /\ dirState' = r.dir
       /\ IF r.ok
            THEN pc' = "banner" /\ NoRaise
            ELSE /\ pc' = "crashed"
                 /\ raised' = "makedirs" /\ excType' = r.exc /\ excText' = r.text
  /\ UNCHANGED <<writable, file, remote, env, size, read, blocknum, received,
                 out, attempts, runs, pre, prev, args, result>>

\* lines 12-16
Banner ==
  /\ pc = "banner"
  /\ out' = out \o << Line("rule", ""), Line("title", "FaceNet Model Download Script"),
                      Line("rule", ""), Line("from", model_url),
                      Line("destination", model_path) >>
  /\ pc' = "urlretrieve"
  /\ UNCHANGED <<dirState, writable, file, remote, env, size, read, blocknum,
                 received, attempts, raised, excType, excText, runs, pre, prev,
                 args, result>>

\* The reporthook call made by urlretrieve.
Report(bn, continue) ==
  LET r == download_progress(bn, BlockSize, size') IN
    /\ args' = [block_num |-> bn, block_size |-> BlockSize, total_size |-> size']
    /\ result' = r
    /\ IF r.raised
         THEN out' = out /\ Raise("urlretrieve", "ZeroDivisionError", "division by zero")
         ELSE out' = Append(out, r.line) /\ pc' = continue /\ NoRaise

\* A run that leaves an existing destination file alone.
UrlRetrieveOpen_keep ==
  /\ pc = "urlretrieve"
  /\ attempts' = attempts + 1
  /\ IF file # NoFile
       THEN /\ pc' = "getsize" /\ NoRaise
            /\ UNCHANGED <<file, size, out, args, result>>
       ELSE IF ~env.reachable
         THEN /\ Raise("urlretrieve", "URLError", "<urlopen error [Errno 101] Network is unreachable>")
              /\ UNCHANGED <<file, size, out, args, result>>
         ELSE /\ file' = <<>>
              /\ size' = IF env.hasLength THEN Len(remote) ELSE -1
              /\ Report(0, "read")
  /\ UNCHANGED <<dirState, writable, remote, env, read, blocknum, received,
                 runs, pre, prev>>

\* line 27, first part: urlopen(url), open(filename, 'wb'), the size from
\* Content-Length, reporthook(0, bs, size).
UrlRetrieveOpen ==
  /\ pc = "urlretrieve"
  /\ attempts' = attempts + 1
  /\ IF ~env.reachable
       THEN /\ Raise("urlretrieve", "URLError", "<urlopen error [Errno 101] Network is unreachable>")
            /\ UNCHANGED <<file, size, out, args, result>>
       ELSE IF dirState # "dir"
         THEN /\ Raise("urlretrieve", "FileNotFoundError",
                       "[Errno 2] No such file or directory: 'assets/models/facenet.tflite'")
              /\ UNCHANGED <<file, size, out, args, result>>
       ELSE IF ~writable
         THEN /\ Raise("urlretrieve", "PermissionError",
                       "[Errno 13] Permission denied: 'assets/models/facenet.tflite'")
              /\ UNCHANGED <<file, size, out, args, result>>
         ELSE /\ file' = <<>>
              /\ size' = IF env.hasLength THEN Len(remote) ELSE -1
              /\ Report(0, "read")
  /\ UNCHANGED <<dirState, writable, remote, env, read, blocknum, received,
                 runs, pre, prev>>

\* line 27, the loop: one fp.read(bs); a block is written and reported, the
\* end of the stream leaves the loop and checks the length.
UrlRetrieveRead ==
  /\ pc = "read"
  /\ LET block == SubSeq(remote, read + 1, Min(read + BlockSize, env.deliver)) IN
       IF block # <<>>
         THEN /\ read' = read + Len(block)
              /\ received' = received \o block
              /\ file' = file \o block
              /\ blocknum' = blocknum + 1
              /\ size' = size
              /\ Report(blocknum + 1, "read")
         ELSE /\ IF size >= 0 /\ read < size
                   THEN Raise("urlretrieve", "ContentTooShortError",
                              "<urlopen error retrieval incomplete>")
                   ELSE pc' = "getsize" /\ NoRaise
              /\ UNCHANGED <<read, received, file, blocknum, size, out, args, result>>
  /\ UNCHANGED <<dirState, writable, remote, env, attempts, runs, pre, prev>>

\* line 29: os.path.getsize(model_path)
GetSize ==
  /\ pc = "getsize"
  /\ IF env.statOk /\ file # NoFile
       THEN pc' = "success" /\ NoRaise
       ELSE Raise("getsize", "FileNotFoundError",
                  "[Errno 2] No such file or directory: 'assets/models/facenet.tflite'")
  /\ UNCHANGED <<dirState, writable, file, remote, env, size, read, blocknum,
                 received, out, attempts, runs, pre, prev, args, result>>

SuccessLines ==
  << [Line("success", "Model downloaded successfully!") EXCEPT
         !.mb_total = RoundDiv(Len(file) * 100, MB)],
     Line("next", "Next Steps:") >>

\* The success report running on into the error block.
PrintSuccess_fallthrough ==
  /\ pc = "success"
  /\ out' = out \o SuccessLines
  /\ pc' = "except"
  /\ UNCHANGED <<dirState, writable, file, remote, env, size, read, blocknum,
                 received, attempts, raised, excType, excText, runs, pre, prev,
                 args, result>>

\* lines 30-39: the success summary (file size in hundredths of a MB) and
\* the next steps.
PrintSuccess ==
  /\ pc = "success"
  /\ out' = out \o SuccessLines
  /\ pc' = "done"
  /\ UNCHANGED <<dirState, writable, file, remote, env, size, read, blocknum,
                 received, attempts, raised, excType, excText, runs, pre, prev,
                 args, result>>

ErrorLines ==
  << Line("error", excText), Line("alternative", "Download manually from:"),
     Line("manual_url", manual_url), Line("save_as", model_path) >>

\* A handler that tries the download again.
PrintError_retry ==
  /\ pc = "except"
  /\ out' = out \o ErrorLines
  /\ pc' = "urlretrieve"
  /\ UNCHANGED <<dirState, writable, file, remote, env, size, read, blocknum,
                 received, attempts, raised, excType, excText, runs, pre, prev,
                 args, result>>

\* lines 41-45: the except block
PrintError ==
  /\ pc = "except"
  /\ out' = out \o ErrorLines
  /\ pc' = "done"
  /\ UNCHANGED <<dirState, writable, file, remote, env, size, read, blocknum,
                 received, attempts, raised, excType, excText, runs, pre, prev,
                 args, result>>

\* The script is started again on the same tree against the same remote body.
Rerun ==
  /\ pc \in {"done", "crashed"}
  /\ runs < MaxRuns
  /\ runs' = runs + 1
  /\ prev' = [outcome |-> IF pc = "crashed" THEN "crashed"
                          ELSE IF raised = "none" THEN "success" ELSE "failed",
              file |-> file, received |-> received]
  /\ pre' = [dir |-> dirState, file |-> file]
  /\ env' \in Envs(remote)
  /\ pc' = "makedirs"
  /\ size' = -1 /\ read' = 0 /\ blocknum' = 0 /\ received' = <<>>
  /\ out' = <<>> /\ attempts' = 0
  /\ raised' = "none" /\ excType' = "" /\ excText' = ""
  /\ args' = NoArgs /\ result' = NoResult
  /\ UNCHANGED <<dirState, writable, file, remote>>

Next ==
  \/ Makedirs
  \/ Banner
  \/ UrlRetrieveOpen
  \/ UrlRetrieveRead
  \/ GetSize
  \/ PrintSuccess
  \/ PrintError
  \/ Rerun

Spec == Init /\ [][Next]_vars

\* ------------------------------------------- the callback on its own
ProgressArgs ==
  [block_num : -1..MaxArg, block_size : -1..MaxArg, total_size : -2..MaxArg]

InitProgress ==
  /\ pc = "callback"
  /\ args \in ProgressArgs
  /\ result = NoResult
  /\ dirState = "dir" /\ writable = TRUE /\ file = NoFile /\ remote = <<>>
  /\ env = [reachable |-> TRUE, hasLength |-> TRUE, deliver |-> 0, statOk |-> TRUE]
  /\ size = -1 /\ read = 0 /\ blocknum = 0 /\ received = <<>>
  /\ out = <<>> /\ attempts = 0
  /\ raised = "none" /\ excType = "" /\ excText = ""
  /\ runs = 1
  /\ pre = [dir |-> "dir", file |-> NoFile]
  /\ prev = NoPrev

\* One call download_progress(block_num, block_size, total_size).
CallProgress ==
  /\ pc = "callback"
  /\ LET r == download_progress(args.block_num, args.block_size, args.total_size) IN
       /\ result' = r
       /\ out' = IF r.raised THEN out ELSE Append(out, r.line)
       /\ raised' = IF r.raised THEN "callback" ELSE "none"
  /\ pc' = "called"
  /\ UNCHANGED <<dirState, writable, file, remote, env, size, read, blocknum,
                 received, attempts, excType, excText, runs, pre, prev, args>>

NextProgress == CallProgress

SpecProgress == InitProgress /\ [][NextProgress]_vars

\* ----------------------------------------------------------------- claims
HasKind(k) == \E i \in DOMAIN out : out[i].kind = k
Tail4(s) == SubSeq(s, Len(s) - 3, Len(s))
Terminated == pc \in {"done", "crashed"}

\* C1: when urlretrieve or os.path.getsize raises an Exception, the error
\* does not propagate: the script reaches the except block and ends
\* normally, its last four lines being the error line with the error text,
\* the manual-download lines and the destination path, and the success
\* summary is not printed.
C1_FailureReported ==
  raised \in {"urlretrieve", "getsize"} =>
    /\ pc \in {"except", "done"}
    /\ ~HasKind("success")
    /\ pc = "done" =>
         /\ Len(out) >= 4
         /\ Tail4(out) = << Line("error", excText),
                            Line("alternative", "Download manually from:"),
                            Line("manual_url", manual_url),
                            Line("save_as", model_path) >>
         /\ excText # ""

C1_Witness ==
  pc = "done" /\ raised = "urlretrieve" /\ ~env.reachable /\ HasKind("error")

\* C2: when os.makedirs fails, the error is caught like a transfer failure:
\* no unhandled error reaches the caller and the error block is printed.
C2_MakedirsFailureCaught ==
  raised = "makedirs" =>
    /\ pc # "crashed"
    /\ pc = "done" => HasKind("error") /\ HasKind("manual_url") /\ HasKind("save_as")

\* C3 as stated: with a reachable URL and a writable directory, whatever the
\* tree looked like before (the URL answers and delivers its whole body, the
\* tree can be written and read), at termination assets/models exists and
\* model_path is a file of size > 0.
C3_Pre ==
  /\ env.reachable /\ env.deliver = Len(remote) /\ env.statOk
  /\ writable /\ pre.dir # "blocked"

C3_FileProduced ==
  (Terminated /\ C3_Pre) =>
    dirState = "dir" /\ file # NoFile /\ Len(file) > 0

\* C3 amended: the same, for a remote body that is not empty.
C3_FileProducedNonEmptyBody ==
  (Terminated /\ C3_Pre /\ remote # <<>>) =>
    dirState = "dir" /\ file # NoFile /\ Len(file) > 0

C3_Witness ==
  /\ pc = "done" /\ C3_Pre /\ remote # <<>>
  /\ pre.dir = "absent" /\ file # NoFile /\ Len(file) > 0

\* C4: a successful run replaces whatever was at model_path by the bytes it
\* downloaded, so a second successful run that downloads the same bytes
\* leaves the file the first one left.
C4_Overwrites ==
  (pc = "done" /\ raised = "none") =>
    /\ file = received
    /\ (prev.outcome = "success" /\ prev.received = received) => file = prev.file

C4_Witness ==
  /\ pc = "done" /\ raised = "none"
  /\ runs = 2 /\ prev.outcome = "success"
  /\ pre.file # NoFile /\ prev.received = received /\ received # <<>>

\* C5: urlretrieve is called at most once per invocation, and once it has
\* been called the script is never again at the call.
C5_SingleAttempt ==
  /\ attempts <= 1
  /\ attempts = 1 => pc # "urlretrieve"

C5_Witness ==
  pc = "done" /\ attempts = 1 /\ raised = "urlretrieve"

\* C6: when the total size is known and equals the bytes downloaded, the
\* last progress line of the transfer shows 100.0 percent.
C6_Reaches100 ==
  (pc = "getsize" /\ size > 0 /\ read = size) => result.line.percent = 1000

\* C7: for total_size <= 0 the callback reports 0 percent whatever
\* block_num and block_size are, and raises no ZeroDivisionError.
C7_UnknownTotalIsZero ==
  (pc = "called" /\ args.total_size <= 0) =>
    /\ ~result.raised
    /\ result.line.kind = "progress"
    /\ result.line.percent = 0

C7_Witness ==
  /\ pc = "called" /\ args.total_size = 0
  /\ args.block_num > 0 /\ args.block_size > 0
  /\ result.line.percent = 0

\* C8: when assets/models already exists the directory step raises nothing,
\* leaves the directory and the file in it as they were, and continues at
\* the same place as after creating the directory.
C8_MakedirsIdempotent ==
  [][(pc = "makedirs" /\ dirState = "dir") =>
       /\ pc' = "banner"
       /\ dirState' = "dir" /\ file' = file
       /\ raised' = "none"]_vars

C8_Witness ==
  /\ pc = "banner" /\ pre.dir = "dir"
  /\ pre.file # NoFile /\ file = pre.file /\ raised = "none"

\* C9: a run that got past the directory step and has ended printed exactly
\* one of the success summary and the error block; the success summary is
\* printed only when urlretrieve returned and the size was read back.
C9_ExactlyOneReport ==
  /\ (Terminated /\ raised # "makedirs") =>
       /\ ~(HasKind("success") /\ HasKind("error"))
       /\ HasKind("success") \/ (HasKind("error") /\ HasKind("save_as"))
  /\ HasKind("success") =>
       /\ pc = "done" /\ raised = "none"
       /\ (size < 0 \/ read >= size)
       /\ file = received

C9_Witness ==
  pc = "done" /\ HasKind("success") /\ ~HasKind("error") /\ file # <<>>

\* C10: every progress line of a transfer whose total size is known (> 0)
\* shows a percentage between 0 and 100.
C10_PercentInRange ==
  size > 0 =>
    \A i \in DOMAIN out :
      out[i].kind = "progress" => out[i].percent \in 0..1000

TypeOK ==
  /\ pc \in {"makedirs", "banner", "urlretrieve", "read", "getsize", "success",
             "except", "done", "crashed", "callback", "called"}
  /\ attempts \in 0..1
====
